---------------------------- MODULE Spec2Model ----------------------------
(***************************************************************************)
(* Notes Copilot: the Vue front end (web/src) and the note-ingestion and   *)
(* search core it talks to.                                                *)
(*                                                                         *)
(* The front-end components are translated from their sources.  The back   *)
(* end (resilience wrapper, ingestion pipeline, ranker, task status) has   *)
(* no source in the repository; it is modelled from the design document    *)
(* and every such definition says so.                                      *)
(*                                                                         *)
(* One module, several specifications, one per unit:                       *)
(*   SpecIngest  CreateNote: normalise, enrich, embed, persist             *)
(*   SpecRank    the similarity ranker                                     *)
(*   SpecHome    pages/Home.vue with NoteCard, router and the list API     *)
(*   SpecForm    components/NoteForm.vue                                   *)
(*   SpecSearch  components/SearchBar.vue                                  *)
(*   SpecDetail  pages/NoteDetail.vue with the task API                    *)
(* The variables of the units a specification does not run keep the value  *)
(* their Off predicate gives them.                                         *)
(***************************************************************************)
EXTENDS Integers, Sequences, FiniteSets, Bags, TLC

(***************************************************************************)
(* Text.  A string is a sequence of characters; " " is the only white      *)
(* space character of the alphabet and "a" stands for any other one.       *)
(***************************************************************************)
Chars == {" ", "a"}

RECURSIVE TrimStart(_)
TrimStart(s) ==
  IF s = <<>> THEN <<>>
  ELSE IF Head(s) = " " THEN TrimStart(Tail(s)) ELSE s

RECURSIVE TrimEnd(_)
TrimEnd(s) ==
  IF s = <<>> THEN <<>>
  ELSE IF s[Len(s)] = " " THEN TrimEnd(SubSeq(s, 1, Len(s) - 1)) ELSE s

\* Mutation of Trim: leading whitespace alone is removed.
TrimLeadingOnly(s) == TrimStart(s)

\* String.prototype.trim
Trim(s) == TrimEnd(TrimStart(s))

\* A value that may be null: <<>> is null and <<v>> is the value v.
None == <<>>
Some(v) == <<v>>

(***************************************************************************)
(* State.                                                                  *)
(***************************************************************************)
VARIABLES
  \* ingestion
  ing,        \* per CreateNote request: its position and the state of its calls
  noteStore,  \* persisted notes
  taskStore,  \* persisted tasks
  \* ranker
  rkCands,    \* the snapshot of candidates, in the order persistence gave them
  rkRanked,   \* the rankings computed so far (at most two)
  rkMoves,    \* reorderings of the snapshot since the latest ranking (0, 1, many)
  rkOrders,   \* 2 when the latest two rankings came from different fetch orders
  \* components/SearchBar.vue
  sbMounted,    \* the component is mounted
  sbQuery,      \* data searchQuery
  sbTimeout,    \* data searchTimeout: a timer identifier, 0 for null
  sbSearching,  \* data isSearching
  sbTimers,     \* the browser's pending timers: identifier and milliseconds left
  sbSinceInput, \* milliseconds since the most recent input event, up to DebounceMs
  sbEmits,      \* the search events emitted since the most recent input event
  \* components/NoteForm.vue
  nfForm,       \* data form: title and body
  nfSubmitting, \* data isSubmitting
  nfError,      \* data error: None or a message
  nfLast,       \* data lastCreatedNote: None or the note
  nfRequest,    \* the api.createNote call awaited: None or its noteData
  nfCalls,      \* how many times api.createNote has been called, up to MaxCalls
  nfEmitted,    \* the note-created events emitted, the latest last
  \* pages/NoteDetail.vue and the server behind api.getNote / api.updateTask
  dId,        \* prop id: the id parameter of the current route
  dNote,      \* data note: None or the note (id, task statuses)
  dLoading,   \* data isLoading
  dError,     \* data error: None or a message
  dLoads,     \* api.getNote calls awaited
  dToggles,   \* api.updateTask calls awaited
  dSrv,       \* the server's task statuses, per note
  dSeq,       \* the run of toggles followed: None, or the task toggled with
              \* nothing else awaited, its status before and the toggles done
  \* pages/Home.vue, the router and the server behind api.listNotes
  hRoute,       \* the current route: Home and its search query parameter, if
                \* any, or NoteDetail and its id parameter
  hNotes,       \* data notes: the entries shown (id, similarity)
  hLoading,     \* data isLoading
  hLoadingMore, \* data isLoadingMore
  hError,       \* data error: None or a message
  hQuery,       \* data searchQuery: None or a term
  hTotal,       \* data totalNotes
  hOffset,      \* data currentOffset
  hReqs,        \* api.listNotes calls awaited
  hSrv,         \* how many notes the server stores
  hAnnounced,   \* the newest note a note-created event has carried
  hClicked,     \* the note whose View Details button was clicked, 0 for none
  hPlain,       \* only the initial load and Load More have happened, no write
  \* the way of a search text: SearchBar.performSearch, Home.handleSearch,
  \* Home.loadNotes, api.listNotes
  lqField,    \* SearchBar's searchQuery when performSearch last ran
  lqEmit,     \* the payload of the search event it emitted, if it ran
  lqQuery,    \* Home's searchQuery: None or a text
  lqOffset,   \* Home's currentOffset
  lqHasMore,  \* the Load More button is shown and enabled
  lqSent,     \* the query parameters of the latest api.listNotes call
  \* api.js: one call of the api object through apiRequest and fetch
  aqCall,     \* the method of the api object that was called, None before
  aqUrl,      \* the url apiRequest gave to fetch
  aqFetched,  \* how fetch settled
  aqOutcome   \* how the promise apiRequest returned settled

ingestVars == <<ing, noteStore, taskStore>>
rankVars == <<rkCands, rkRanked, rkMoves, rkOrders>>

searchVars == <<sbMounted, sbQuery, sbTimeout, sbSearching, sbTimers, sbSinceInput, sbEmits>>

formVars == <<nfForm, nfSubmitting, nfError, nfLast, nfRequest, nfCalls, nfEmitted>>

detailVars == <<dId, dNote, dLoading, dError, dLoads, dToggles, dSrv, dSeq>>

homeVars == <<hRoute, hNotes, hLoading, hLoadingMore, hError, hQuery, hTotal, hOffset, hReqs,
              hSrv, hAnnounced, hClicked, hPlain>>

listReqVars == <<lqField, lqEmit, lqQuery, lqOffset, lqHasMore, lqSent>>

apiVars == <<aqCall, aqUrl, aqFetched, aqOutcome>>

vars == <<ingestVars, rankVars, searchVars, formVars, detailVars, homeVars, listReqVars,
          apiVars>>

\* What a step of one unit leaves alone: the other units.
IngestFrame == UNCHANGED <<rankVars, searchVars, formVars, detailVars, homeVars, listReqVars, apiVars>>
RankFrame == UNCHANGED <<ingestVars, searchVars, formVars, detailVars, homeVars, listReqVars, apiVars>>
SearchFrame == UNCHANGED <<ingestVars, rankVars, formVars, detailVars, homeVars, listReqVars, apiVars>>
FormFrame == UNCHANGED <<ingestVars, rankVars, searchVars, detailVars, homeVars, listReqVars, apiVars>>
DetailFrame == UNCHANGED <<ingestVars, rankVars, searchVars, formVars, homeVars, listReqVars, apiVars>>
HomeFrame == UNCHANGED <<ingestVars, rankVars, searchVars, formVars, detailVars, listReqVars, apiVars>>
ListReqFrame == UNCHANGED <<ingestVars, rankVars, searchVars, formVars, detailVars, homeVars, apiVars>>
ApiFrame == UNCHANGED <<ingestVars, rankVars, searchVars, formVars, detailVars, homeVars, listReqVars>>

(***************************************************************************)
(* Bounds of the model.                                                    *)
(***************************************************************************)
MaxReqs == 2
MaxPad == 1        \* spaces before and after a long body
MaxOver == 1       \* characters a long body has beyond the maximum
MaxCands == 3      \* candidates of one ranking
MaxCreated == 2    \* creation timestamps 1..MaxCreated
MaxText == 6       \* characters of a typed text
MaxCalls == 2      \* api.createNote calls counted
MaxFormText == 3   \* characters of a text the form holds when submitted
MaxDetailNotes == 1  \* notes the detail page can be opened on
MaxTasks == 2      \* tasks of a note on the detail page
MaxAwaited == 2    \* requests of one kind a page awaits at a time
MaxNotes == 22     \* notes the server stores
MaxTerms == 1      \* search terms and tags
TickMs == 100      \* milliseconds one step of the clock advances
MaxTimers == 2     \* pending timers the browser's table holds
MaxFieldText == 4  \* characters of the search field when performSearch runs
MaxListed == 21    \* notes the list requests of a search text have fetched
MaxSim == 1        \* similarity levels 0..MaxSim (similarity k / MaxSim)

(***************************************************************************)
(* INGESTION (design document, sections 4.1 to 4.5 and 7).                 *)
(***************************************************************************)
Reqs == 1..MaxReqs

\* "Transient failures are retried up to a fixed bound (e.g., 2 retries)"
MaxRetries == 2

\* "exactly 3 follow-up tasks generated per note at creation"
TasksPerNote == 3

\* "tags (ordered sequence of 3-6 distinct strings)"
MinTags == 3
MaxTags == 6

\* "body (text, truncated to a fixed maximum of 8000 characters)"
MaxBodyChars == 8000

\* Section 4.4: "transient (timeout, server-side 5xx-equivalent, connection
\* failure) or permanent (schema/validation failure, authorization failure)".
\* One cause of each class is modelled ("timeout", and "invalid" for a schema
\* or validation failure): the policy reads only the class.
TransientCauses == {"timeout"}
PermanentCauses == {"invalid"}
Causes == TransientCauses \cup PermanentCauses

\* Mutation of Classify: every failure taken for a transient one.
ClassifyBroken(cause) == "transient"

\* Section 4.4: the classification of a failure.
Classify(cause) == IF cause \in TransientCauses THEN "transient" ELSE "permanent"

\* A call through the wrapper: attempts made, run | ok | fail, the outcome of
\* the latest attempt, and the error surfaced when it failed.
NewCall == [attempts |-> 0, status |-> "run", last |-> "none", surfaced |-> "none",
            transients |-> 0]

\* Mutation of Attempt: the retry bound off by one.
AttemptOffByOne(c, outcome) ==
  LET n == c.attempts + 1
      retry == outcome # "ok" /\ Classify(outcome) = "transient" /\ n - 1 <= MaxRetries
      failed == outcome # "ok" /\ ~retry
  IN [attempts   |-> n,
      status     |-> IF outcome = "ok" THEN "ok" ELSE IF retry THEN "run" ELSE "fail",
      last       |-> outcome,
      surfaced   |-> IF failed THEN outcome ELSE "none",
      transients |-> IF outcome \in TransientCauses THEN c.transients + 1 ELSE c.transients]

\* Section 4.4: one attempt of a wrapped call, with what the upstream did.
\* A success ends the call; a permanent failure ends it without a retry; a
\* transient failure is retried while retries remain and otherwise surfaces
\* as it was classified.
Attempt(c, outcome) ==
  LET n == c.attempts + 1
      retry == outcome # "ok" /\ Classify(outcome) = "transient" /\ n - 1 < MaxRetries
      failed == outcome # "ok" /\ ~retry
  IN [attempts   |-> n,
      status     |-> IF outcome = "ok" THEN "ok" ELSE IF retry THEN "run" ELSE "fail",
      last       |-> outcome,
      surfaced   |-> IF failed THEN outcome ELSE "none",
      transients |-> IF outcome \in TransientCauses THEN c.transients + 1 ELSE c.transients]

\* Bodies about as long as the maximum.
LongBodies ==
  LET LongBody(lead, len, trail, gap) ==
        [i \in 1..(lead + len + trail) |->
           IF i <= lead \/ i > lead + len \/ (gap > 0 /\ i = lead + gap) THEN " " ELSE "a"]
  IN
    {LongBody(lead, len, trail, gap) :
       lead \in 0..MaxPad, len \in (MaxBodyChars - 1)..(MaxBodyChars + MaxOver),
       trail \in 0..MaxPad, gap \in {0, MaxBodyChars}}

\* Section 4.2: the answers of the generative model: every field present with
\* tags and tasks of the lengths at and next to the limits, and answers that
\* miss a field.
Shaped(nTags, nTasks) ==
  [summary |-> "summary", tags |-> [i \in 1..nTags |-> i], tasks |-> [i \in 1..nTasks |-> i]]

Responses ==
  {Shaped(n, TasksPerNote) : n \in {MinTags - 1, MinTags, MaxTags, MaxTags + 1}}
    \cup {Shaped(MinTags, n) : n \in {TasksPerNote - 1, TasksPerNote + 1}}
    \cup {[tags |-> Shaped(MinTags, TasksPerNote).tags,
           tasks |-> Shaped(MinTags, TasksPerNote).tasks],
          [summary |-> "summary", tasks |-> Shaped(MinTags, TasksPerNote).tasks],
          [summary |-> "summary", tags |-> Shaped(MinTags, TasksPerNote).tags]}

\* Mutation of ValidEnrichment: the number of tags has no upper limit.
ValidEnrichmentNoMaxTags(resp) ==
  /\ {"summary", "tags", "tasks"} \subseteq DOMAIN resp
  /\ Len(resp.tags) >= MinTags
  /\ Len(resp.tasks) = TasksPerNote

\* Section 4.2: the shape the Enrichment Client validates: "any response
\* missing a required field, with tags outside [3,6], or tasks # 3 is treated
\* as a contract violation".
ValidEnrichment(resp) ==
  /\ {"summary", "tags", "tasks"} \subseteq DOMAIN resp
  /\ Len(resp.tags) \in MinTags..MaxTags
  /\ Len(resp.tasks) = TasksPerNote

\* Mutation of Truncate: the body is stored whole.
TruncateNever(s) == s

\* Section 4.1: "Truncates body to at most 8000 characters (character-count
\* truncation, applied after trimming)".
Truncate(s) == IF Len(s) > MaxBodyChars THEN SubSeq(s, 1, MaxBodyChars) ELSE s

\* raw is the body CreateNote was given and response the answer the
\* Enrichment Client received last, None before any.
NewReq == [pc |-> "idle", title |-> <<>>, body |-> <<>>, raw |-> <<>>, enrich |-> NewCall,
           embed |-> NewCall, response |-> None, result |-> "none", failedStep |-> "none"]

IngestInit ==
  /\ ing = [r \in Reqs |-> NewReq]
  /\ noteStore = {}
  /\ taskStore = {}

\* Sections 4.1 and 4.5: CreateNote(title, body) starts: normalise, then either
\* reject with ValidationError or start the two model calls.
CreateNoteOf(r, t, b) ==
  /\ ing[r].pc = "idle"
  /\ LET tt == Trim(t)
         bb == Truncate(Trim(b))
     IN ing' = [ing EXCEPT ![r] =
          IF tt = <<>> \/ bb = <<>>
          THEN [@ EXCEPT !.pc = "done", !.result = "ValidationError",
                         !.failedStep = "validate", !.raw = b]
          ELSE [@ EXCEPT !.pc = "calls", !.title = tt, !.body = bb, !.raw = b]]
  /\ UNCHANGED <<noteStore, taskStore>>
  /\ IngestFrame

CreateNote(r) ==
  \E t \in {<<>>, <<" ">>, <<" ", "a">>}, b \in {<<" ">>, <<"a", " ">>} :
    CreateNoteOf(r, t, b)

\* Section 4.5: "on any failure from either, abort the whole operation ... and
\* propagate the specific error kind".  The request after `client`'s call has
\* moved to c: a failed call ends the request with that client's error, and
\* the other call, if still running, is abandoned.
AfterCall(q, client, c) ==
  IF c.status = "fail"
  THEN [q EXCEPT ![client] = c, !.pc = "done",
                 !.result = IF client = "enrich" THEN "EnrichmentError" ELSE "EmbeddingError",
                 !.failedStep = client]
  ELSE [q EXCEPT ![client] = c]

\* Sections 4.2 and 4.3: one attempt of the enrichment or of the embedding
\* call of request r.  The two calls of a request run concurrently.
\* The upstream of the embedding call fails or succeeds; the upstream of the
\* enrichment call fails or answers, and the client validates the answer.
CallAttemptOf(r, client, responses) ==
  /\ ing[r].pc = "calls"
  /\ ing[r][client].status = "run"
  /\ \/ \E o \in Causes \cup (IF client = "embed" THEN {"ok"} ELSE {}) :
          ing' = [ing EXCEPT ![r] = AfterCall(@, client, Attempt(@[client], o))]
     \/ /\ client = "enrich"
        /\ \E resp \in responses :
             ing' = [ing EXCEPT ![r] =
                       [AfterCall(@, client, Attempt(@[client],
                                 IF ValidEnrichment(resp) THEN "ok" ELSE "invalid"))
                          EXCEPT !.response = Some(resp)]]
  /\ UNCHANGED <<noteStore, taskStore>>
  /\ IngestFrame

\* One answer that keeps the contract and one that violates it.
CallAttempt(r, client) ==
  CallAttemptOf(r, client,
                {Shaped(MinTags, TasksPerNote), Shaped(MaxTags + 1, TasksPerNote)})

NoteOf(r) ==
  [id |-> r, title |-> ing[r].title, body |-> ing[r].body,
   summary |-> ing[r].response[1].summary, tags |-> ing[r].response[1].tags]
TasksOf(r) ==
  {[note |-> r, idx |-> i, text |-> ing[r].response[1].tasks[i], status |-> "open"] :
     i \in 1..Len(ing[r].response[1].tasks)}

\* Mutation of StoreAfterFailedWrite: the note row survives the failed write.
StoreAfterFailedWriteLeak(r) == noteStore \cup {NoteOf(r)}

\* What a failed write leaves in the note table: nothing.
StoreAfterFailedWrite(r) == noteStore

\* Section 4.5: both calls succeeded: assemble the Note with its Tasks open
\* and hand it to persistence, which stores all of it or fails with
\* StorageError and stores nothing.
Persist(r) ==
  /\ ing[r].pc = "calls"
  /\ ing[r].enrich.status = "ok"
  /\ ing[r].embed.status = "ok"
  /\ \/ /\ noteStore' = noteStore \cup {NoteOf(r)}
        /\ taskStore' = taskStore \cup TasksOf(r)
        /\ ing' = [ing EXCEPT ![r].pc = "done", ![r].result = "ok"]
     \/ /\ noteStore' = StoreAfterFailedWrite(r)
        /\ taskStore' = taskStore
        /\ ing' = [ing EXCEPT ![r].pc = "done", ![r].result = "StorageError",
                              ![r].failedStep = "persist"]
  /\ IngestFrame

\* Section 6: the reads.  They change nothing, so a read interleaved anywhere
\* returns what these give in the state it runs in.  GetNote(id) is the set of
\* persisted notes of that identifier: empty for NotFoundError.
GetNote(id) == {n \in noteStore : n.id = id}
ListNotesAll == noteStore

IngestNext ==
  \/ \E r \in Reqs : CreateNote(r)
  \/ \E r \in Reqs : CallAttempt(r, "enrich")
  \/ \E r \in Reqs : CallAttempt(r, "embed")
  \/ \E r \in Reqs : Persist(r)

(***************************************************************************)
(* SIMILARITY RANKER (design document, sections 4.6 and 4.7).              *)
(* The scores are computed before the sort ("a pure, side-effect-free      *)
(* batch computation"), so a candidate reaches the sort with its score.    *)
(***************************************************************************)
Min(a, b) == IF a < b THEN a ELSE b

\* Mutation of RankBefore: similarity alone, no tie-break.
RankBeforeNoTieBreak(a, b) == a.sim > b.sim

\* Section 4.6: "Sorts descending by similarity; ties broken deterministically
\* by creation time descending (newest first), then by identifier".
RankBefore(a, b) ==
  \/ a.sim > b.sim
  \/ a.sim = b.sim /\ a.created > b.created
  \/ a.sim = b.sim /\ a.created = b.created /\ a.id < b.id

RECURSIVE InsertRanked(_, _)
InsertRanked(x, s) ==
  IF s = <<>> THEN <<x>>
  ELSE IF RankBefore(x, Head(s)) THEN <<x>> \o s
  ELSE <<Head(s)>> \o InsertRanked(x, Tail(s))

\* Section 4.6: the sorted sequence of the candidates.
RECURSIVE Rank(_)
Rank(c) == IF c = <<>> THEN <<>> ELSE InsertRanked(Head(c), Rank(Tail(c)))

\* Section 4.6: "Applies offset/limit pagination to the sorted sequence.
\* Reports total as the size of the full candidate set".
Page(s, lim, off) ==
  [notes |-> SubSeq(s, off + 1, Min(off + lim, Len(s))), total |-> Len(s)]

Candidates(n) ==
  {[i \in 1..n |-> [id |-> i, created |-> c[i].created, sim |-> c[i].sim]] :
     c \in [1..n -> [created : 1..MaxCreated, sim : 0..MaxSim]]}

RankInit ==
  /\ rkCands \in UNION {Candidates(n) : n \in 0..MaxCands}
  /\ rkRanked = <<>>
  /\ rkMoves = 0
  /\ rkOrders = 0

RankOff == rkCands = <<>> /\ rkRanked = <<>> /\ rkMoves = 0 /\ rkOrders = 0

\* Section 4.7: a search ranks the snapshot it fetched.
RankSearch ==
  /\ rkRanked' = Append(IF Len(rkRanked) = 2 THEN Tail(rkRanked) ELSE rkRanked,
                        Rank(rkCands))
  /\ rkOrders' = IF rkRanked # <<>> /\ rkMoves = 1 THEN 2 ELSE 1
  /\ rkMoves' = 0
  /\ UNCHANGED rkCands
  /\ RankFrame

\* Section 5: "each search computes similarity against a fresh snapshot of
\* persisted notes fetched at call time": the same notes may come in another
\* order.  Exchanging neighbours reaches every order.
Resnapshot ==
  /\ \E i \in 1..(Len(rkCands) - 1) :
       rkCands' = [rkCands EXCEPT ![i] = rkCands[i + 1], ![i + 1] = rkCands[i]]
  /\ rkMoves' = IF rkMoves = 0 THEN 1 ELSE 2
  /\ UNCHANGED <<rkRanked, rkOrders>>
  /\ RankFrame

RankNext == RankSearch \/ Resnapshot

(***************************************************************************)
(* components/SearchBar.vue (the second component of TagChip.vue's file).  *)
(* clearSearch has no caller, in the template or elsewhere, and is not an  *)
(* action.                                                                 *)
(***************************************************************************)
Texts == UNION {[1..n -> Chars] : n \in 0..MaxText}

\* setTimeout(..., 300)
DebounceMs == 300

SearchInit ==
  /\ sbMounted = TRUE
  /\ sbQuery = <<>>
  /\ sbTimeout = 0
  /\ sbSearching = FALSE
  /\ sbTimers = {}
  /\ sbSinceInput = DebounceMs
  /\ sbEmits = <<>>

SearchOff == SearchInit

\* Mutation of TimersAfterClear: the pending timer is left to run.
TimersNotCleared(timers, id) == timers

\* handleInput, "Clear existing timeout".
TimersAfterClear(timers, id) ==
  IF id # 0 THEN {t \in timers : t.id # id} ELSE timers

\* The input event of the search field: v-model stores the text, then
\* handleInput restarts the timer.
HandleInput(text) ==
  LET FreshTimer(timers) == CHOOSE i \in 1..(MaxTimers + 1) : \A t \in timers : t.id # i
  IN
    /\ sbMounted
    /\ text # sbQuery
    /\ LET cleared == TimersAfterClear(sbTimers, sbTimeout)
           id == FreshTimer(cleared)
       IN /\ Cardinality(cleared) < MaxTimers
          /\ sbQuery' = text
          /\ sbSearching' = (Trim(text) # <<>>)
          /\ sbTimers' = cleared \cup {[id |-> id, left |-> DebounceMs]}
          /\ sbTimeout' = id
    /\ sbSinceInput' = 0
    /\ sbEmits' = <<>>
    /\ UNCHANGED sbMounted
    /\ SearchFrame

\* Mutation of OrNull: the text is emitted as it is, empty or not.
NeverNull(q) == Some(q)

\* performSearch: query || null
OrNull(q) == IF q = <<>> THEN None ELSE Some(q)

\* The timer's callback, performSearch, runs once its delay has passed.
TimerFires(t) ==
  /\ t \in sbTimers
  /\ t.left = 0
  /\ sbTimers' = sbTimers \ {t}
  /\ sbSearching' = FALSE
  /\ sbEmits' = Append(sbEmits, [payload |-> OrNull(Trim(sbQuery)), after |-> sbSinceInput])
  /\ UNCHANGED <<sbMounted, sbQuery, sbTimeout, sbSinceInput>>
  /\ SearchFrame

\* Time passes.
SearchTick ==
  /\ sbTimers' = {[id |-> t.id, left |-> IF t.left > TickMs THEN t.left - TickMs ELSE 0] :
                    t \in sbTimers}
  /\ sbSinceInput' = Min(DebounceMs, sbSinceInput + TickMs)
  /\ (sbTimers' # sbTimers \/ sbSinceInput' # sbSinceInput)
  /\ UNCHANGED <<sbMounted, sbQuery, sbTimeout, sbSearching, sbEmits>>
  /\ SearchFrame

\* beforeUnmount
SearchUnmount ==
  /\ sbMounted
  /\ sbMounted' = FALSE
  /\ sbTimers' = TimersAfterClear(sbTimers, sbTimeout)
  /\ UNCHANGED <<sbQuery, sbTimeout, sbSearching, sbSinceInput, sbEmits>>
  /\ SearchFrame

\* The page is shown again: a new instance, with data() as its state.
SearchMount ==
  /\ ~sbMounted
  /\ sbTimers = {}
  /\ sbMounted' = TRUE
  /\ sbQuery' = <<>>
  /\ sbTimeout' = 0
  /\ sbSearching' = FALSE
  /\ sbSinceInput' = DebounceMs
  /\ sbEmits' = <<>>
  /\ UNCHANGED sbTimers
  /\ SearchFrame

SearchNext ==
  \/ \E text \in Texts : HandleInput(text)
  \/ \E t \in sbTimers : TimerFires(t)
  \/ SearchTick
  \/ SearchUnmount
  \/ SearchMount

(***************************************************************************)
(* components/NoteForm.vue                                                 *)
(***************************************************************************)
Fields == {"title", "body"}

FormInit ==
  /\ nfForm = [title |-> <<>>, body |-> <<>>]
  /\ nfSubmitting = FALSE
  /\ nfError = None
  /\ nfLast = None
  /\ nfRequest = None
  /\ nfCalls = 0
  /\ nfEmitted = <<>>

\* Mutation of FieldDisabled: the Content field follows isSubmitting, as the
\* Title field does.
FieldDisabledWhileSubmitting(f) == nfSubmitting

\* The disabled attribute of the two fields: the title input's is
\* isSubmitting, the body textarea's is the constant true.
FieldDisabled(f) == IF f = "title" THEN nfSubmitting ELSE TRUE

\* computed isValid
IsValid == Trim(nfForm.title) # <<>> /\ Trim(nfForm.body) # <<>>

\* The disabled attribute of the Create Note button.
SubmitDisabled == nfSubmitting \/ ~IsValid

\* The user edits a field that is not disabled: v-model stores the text.
FormInput(f, text) ==
  /\ ~FieldDisabled(f)
  /\ text # nfForm[f]
  /\ nfForm' = [nfForm EXCEPT ![f] = text]
  /\ UNCHANGED <<nfSubmitting, nfError, nfLast, nfRequest, nfCalls, nfEmitted>>
  /\ FormFrame

SubmitReturnsIfInvalid == ~IsValid

\* handleSubmit: if (!this.isValid || this.isSubmitting) return
SubmitReturns == ~IsValid \/ nfSubmitting

FormKept == nfForm

\* handleSubmit, try branch: this.form.body = '' and this.form.title = ''
ClearedForm == [title |-> <<>>, body |-> <<>>]

\* handleSubmit up to its await: return when the form is not valid or a
\* submission is under way, else call api.createNote with the trimmed fields.
HandleSubmit ==
  /\ IF SubmitReturns
     THEN UNCHANGED formVars
     ELSE /\ nfSubmitting' = TRUE
          /\ nfError' = None
          /\ nfLast' = None
          /\ nfRequest' = Some([title |-> Trim(nfForm.title), body |-> Trim(nfForm.body)])
          /\ nfCalls' = Min(MaxCalls, nfCalls + 1)
          /\ UNCHANGED <<nfForm, nfEmitted>>
  /\ FormFrame

\* handleSubmit after its await, the request having succeeded with `note`.
CreateSucceeds(note) ==
  /\ nfRequest # None
  /\ nfLast' = Some(note)
  /\ nfForm' = ClearedForm
  /\ nfEmitted' = Append(nfEmitted, note)
  /\ nfSubmitting' = FALSE
  /\ nfRequest' = None
  /\ UNCHANGED <<nfError, nfCalls>>
  /\ FormFrame

\* handleSubmit after its await, the request having failed with `status`.
CreateFails(status) ==
  LET CreateErrorMessage(st) ==
        IF st = 422 THEN "AI processing failed. Please try again or check your content."
        ELSE IF st >= 500 THEN "Server error. Please try again later."
        ELSE "err.message"
  IN
    /\ nfRequest # None
    /\ nfError' = Some(CreateErrorMessage(status))
    /\ nfSubmitting' = FALSE
    /\ nfRequest' = None
    /\ UNCHANGED <<nfForm, nfLast, nfCalls, nfEmitted>>
    /\ FormFrame

\* The Dismiss button of the success message, rendered while lastCreatedNote
\* is set.
DismissSuccess ==
  /\ nfLast # None
  /\ nfLast' = None
  /\ UNCHANGED <<nfForm, nfSubmitting, nfError, nfRequest, nfCalls, nfEmitted>>
  /\ FormFrame

\* The Dismiss button of the error message, rendered while error is set.
DismissError ==
  /\ nfError # None
  /\ nfError' = None
  /\ UNCHANGED <<nfForm, nfSubmitting, nfLast, nfRequest, nfCalls, nfEmitted>>
  /\ FormFrame

\* The steps the form takes.  CreateSucceeds, CreateFails, DismissSuccess and
\* DismissError follow a call of api.createNote; FormNeverCalls says that
\* there is none, so they add no step and are not disjuncts.
FormNext ==
  \/ \E f \in Fields, text \in Texts : FormInput(f, text)
  \/ HandleSubmit

\* handleSubmit taken by itself, on any content of the form object: the
\* texts handleSubmit may find in form.title and form.body.
FormTexts == UNION {[1..n -> Chars] : n \in 0..MaxFormText}

SubmitInit ==
  /\ nfForm \in [title : FormTexts, body : FormTexts]
  /\ nfSubmitting = FALSE
  /\ nfError = None
  /\ nfLast = None
  /\ nfRequest = None
  /\ nfCalls = 0
  /\ nfEmitted = <<>>

SubmitNext ==
  \/ \E f \in Fields, text \in FormTexts : FormInput(f, text)
  \/ HandleSubmit
  \/ CreateSucceeds(nfRequest[1])
  \/ \E status \in {0, 422, 500} : CreateFails(status)
  \/ DismissSuccess
  \/ DismissError

(***************************************************************************)
(* pages/NoteDetail.vue (in api.js's file) with the server behind          *)
(* api.getNote and api.updateTask (design document, sections 4.8 and 6).   *)
(* The calls a page awaits are bags: two calls alike are two calls.        *)
(***************************************************************************)
DetailNotes == 1..MaxDetailNotes
\* An identifier no note has: GetNote fails with NotFoundError.
MissingNote == MaxDetailNotes + 1
TaskIdx == 1..MaxTasks

\* Section 3, Task: text (set once at note creation) and status; all tasks
\* are created open (section 4.5).
NewTasks(n) == [t \in TaskIdx |-> [text |-> <<n, t>>, status |-> "open"]]

\* Mutation of Opposite: every toggle asks for done.
OppositeAlwaysDone(status) == "done"

\* toggleTask: task.status === 'done' ? 'open' : 'done'
Opposite(status) == IF status = "done" THEN "open" ELSE "done"

\* Bag B with one more copy of e, with one copy of e less.
BagAdd(B, e) == B (+) SetToBag({e})
BagDel(B, e) == B (-) SetToBag({e})

\* A later navigation replaces the one whose guard is awaiting: the next()
\* of the earlier guard no longer confirms anything.
NavsOff(B) ==
  [e \in {[o EXCEPT !.nav = FALSE] : o \in BagToSet(B)} |->
     CopiesIn(e, B) + CopiesIn([e EXCEPT !.nav = TRUE], B)]

\* A note loaded again is a new object: the task object a toggle awaited
\* holds is no longer the displayed one.
LivesOff(B) ==
  [e \in {[o EXCEPT !.live = FALSE] : o \in BagToSet(B)} |->
     CopiesIn(e, B) + CopiesIn([e EXCEPT !.live = TRUE], B)]

\* loadNote up to its await.
StartLoad(loads, id, nav) ==
  /\ BagCardinality(loads) < MaxAwaited
  /\ dLoading' = TRUE
  /\ dError' = None
  /\ dLoads' = BagAdd(loads, [id |-> id, nav |-> nav, phase |-> "sent", tasks |-> <<>>])

\* The page is created on a route and mounted() has called loadNote().
DetailInit ==
  /\ dId \in DetailNotes \cup {MissingNote}
  /\ dNote = None
  /\ dLoading = TRUE
  /\ dError = None
  /\ dLoads = SetToBag({[id |-> dId, nav |-> FALSE, phase |-> "sent", tasks |-> <<>>]})
  /\ dToggles = EmptyBag
  /\ dSrv = [n \in DetailNotes |-> NewTasks(n)]
  /\ dSeq = None

DetailOff ==
  /\ dId = 1 /\ dNote = None /\ dLoading = FALSE /\ dError = None
  /\ dLoads = EmptyBag /\ dToggles = EmptyBag
  /\ dSrv = [n \in DetailNotes |-> NewTasks(n)]
  /\ dSeq = None

\* Section 6, GetNote: the server answers a getNote call for a note it has.
ServeLoad(q) ==
  /\ BagIn(q, dLoads) /\ q.phase = "sent"
  /\ q.id \in DetailNotes
  /\ dLoads' = BagAdd(BagDel(dLoads, q), [q EXCEPT !.phase = "ok", !.tasks = dSrv[q.id]])
  /\ UNCHANGED <<dId, dNote, dLoading, dError, dToggles, dSrv, dSeq>>
  /\ DetailFrame

\* beforeRouteUpdate after its await: next() confirms the navigation, unless a
\* later navigation has replaced it.
AfterNavLoad(q) == dId' = IF q.nav THEN q.id ELSE dId

\* loadNote after its await, try branch: the note is stored and isLoading is
\* reset.
LoadDone(q) ==
  /\ BagIn(q, dLoads) /\ q.phase = "ok"
  /\ dLoads' = BagDel(dLoads, q)
  /\ dNote' = Some([id |-> q.id, tasks |-> q.tasks])
  /\ dToggles' = LivesOff(dToggles)
  /\ dSeq' = None
  /\ dLoading' = FALSE
  /\ AfterNavLoad(q)
  /\ UNCHANGED <<dError, dSrv>>
  /\ DetailFrame

\* loadNote after its await, catch branch: the error is stored and isLoading
\* is reset.
LoadFails(q) ==
  LET LoadErrorMessage(status) ==
        IF status = 404 THEN "This note could not be found. It may have been deleted."
        ELSE IF status >= 500 THEN "Server error. Please try again later."
        ELSE "err.message"
  IN
    /\ BagIn(q, dLoads)
    /\ dLoads' = BagDel(dLoads, q)
    \* apiRequest: 404 for a note the server does not have, else 0 (no answer)
    \* or 500.
    /\ \E st \in (IF q.id \in DetailNotes THEN {0, 500} ELSE {404}) :
         dError' = Some(LoadErrorMessage(st))
    /\ dLoading' = FALSE
    /\ AfterNavLoad(q)
    /\ UNCHANGED <<dNote, dToggles, dSrv, dSeq>>
    /\ DetailFrame

\* The Try Again button of the error state.  It calls loadNote with the click
\* event as noteId; the event's string form is no note's identifier.
RetryLoad ==
  /\ ~dLoading /\ dError # None
  /\ StartLoad(dLoads, MissingNote, FALSE)
  /\ UNCHANGED <<dId, dNote, dToggles, dSrv, dSeq>>
  /\ DetailFrame

\* beforeRouteUpdate: the route changes to another note while the page is
\* shown; the guard loads the note and calls next() afterwards.
RouteUpdate(to) ==
  /\ to # dId
  /\ StartLoad(NavsOff(dLoads), to, TRUE)
  /\ UNCHANGED <<dId, dNote, dToggles, dSrv, dSeq>>
  /\ DetailFrame

\* The task list is rendered when the page is not loading, shows no error
\* and has a note.
TasksShown == ~dLoading /\ dError = None /\ dNote # None

\* toggleTask up to its await: the checkbox of task t changes.
ToggleTask(t) ==
  LET SeqAfterClick ==
        IF dToggles # EmptyBag THEN None
        ELSE IF dSeq # None /\ dSeq[1].task = t /\ dSeq[1].n = 1 THEN dSeq
        ELSE Some([task |-> t, orig |-> dNote[1].tasks[t].status, n |-> 0])
  IN
    /\ TasksShown
    /\ BagCardinality(dToggles) < MaxAwaited
    /\ dToggles' = BagAdd(dToggles,
         [note |-> dNote[1].id, task |-> t, from |-> dNote[1].tasks[t].status,
          data |-> [status |-> Opposite(dNote[1].tasks[t].status)],
          live |-> TRUE, phase |-> "sent"])
    /\ dSeq' = SeqAfterClick
    /\ UNCHANGED <<dId, dNote, dLoading, dError, dLoads, dSrv>>
    /\ DetailFrame

\* Mutation of SetStatus: the server flips the status instead of setting it.
SetStatusFlips(statuses, t, status) == [statuses EXCEPT ![t].status = Opposite(@)]

\* Section 4.8: "the only transition is an explicit external set to the
\* opposite or same value".
SetStatus(statuses, t, status) == [statuses EXCEPT ![t].status = status]

\* Section 4.8, UpdateTaskStatus: the server sets the status and answers.
ServeToggle(q) ==
  /\ BagIn(q, dToggles) /\ q.phase = "sent"
  /\ dSrv' = [dSrv EXCEPT ![q.note] = SetStatus(@, q.task, q.data.status)]
  /\ dToggles' = BagAdd(BagDel(dToggles, q), [q EXCEPT !.phase = "ok"])
  /\ UNCHANGED <<dId, dNote, dLoading, dError, dLoads, dSeq>>
  /\ DetailFrame

\* Mutation of LocalAfterToggle: every task of the note gets the status.
LocalAfterToggleAll(tasks, t, status) ==
  [i \in DOMAIN tasks |-> [tasks[i] EXCEPT !.status = status]]

\* Mutation of LocalAfterToggle: the page keeps the statuses it has.
LocalAfterToggleNone(tasks, t, status) == tasks

\* toggleTask: task.status = newStatus
LocalAfterToggle(tasks, t, status) == [tasks EXCEPT ![t].status = status]

\* toggleTask after its await, try branch: the status of the task object the
\* handler was given is set.  The object is the displayed one unless the note
\* has been loaded again since.
ToggleDone(q) ==
  /\ BagIn(q, dToggles) /\ q.phase = "ok"
  /\ dToggles' = BagDel(dToggles, q)
  /\ IF q.live
     THEN dNote' = Some([dNote[1] EXCEPT
                           !.tasks = LocalAfterToggle(@, q.task, q.data.status)])
     ELSE UNCHANGED dNote
  /\ dSeq' = IF q.live /\ dSeq # None THEN Some([dSeq[1] EXCEPT !.n = @ + 1]) ELSE None
  /\ UNCHANGED <<dId, dLoading, dError, dLoads, dSrv>>
  /\ DetailFrame

\* toggleTask after its await, catch branch: the request or its answer was
\* lost; an alert is shown and the task object keeps its status.
ToggleFails(q) ==
  /\ BagIn(q, dToggles)
  /\ dToggles' = BagDel(dToggles, q)
  /\ dSeq' = None
  /\ UNCHANGED <<dId, dNote, dLoading, dError, dLoads, dSrv>>
  /\ DetailFrame

DetailNext ==
  \/ \E q \in BagToSet(dLoads) : ServeLoad(q)
  \/ \E q \in BagToSet(dLoads) : LoadDone(q)
  \/ \E q \in BagToSet(dLoads) : LoadFails(q)
  \/ RetryLoad
  \/ \E to \in DetailNotes \cup {MissingNote} : RouteUpdate(to)
  \/ \E t \in TaskIdx : ToggleTask(t)
  \/ \E q \in BagToSet(dToggles) : ServeToggle(q)
  \/ \E q \in BagToSet(dToggles) : ToggleDone(q)
  \/ \E q \in BagToSet(dToggles) : ToggleFails(q)

(***************************************************************************)
(* pages/Home.vue (in api.js's file) with components/NoteCard.vue, the     *)
(* router of main.js and the server behind api.listNotes (design document, *)
(* sections 4.6, 4.7 and 6).  The server's notes are 1..hSrv, created in   *)
(* that order.                                                             *)
(***************************************************************************)
\* Home.data: limit
limit == 10

Terms == 1..MaxTerms

\* The similarity of a note that carries no similarity field (undefined).
Undefined == <<-1>>

\* Section 4.7: "return notes ordered by creation time descending ... with
\* similarity omitted (null) for every result".
PlainListing(n) == [i \in 1..n |-> [id |-> n + 1 - i, similarity |-> None]]

\* Section 4.7: "invoke the Similarity Ranker over all notes, return results
\* with similarity scores".
SearchListing(term, n) ==
  LET r == Rank([i \in 1..n |->
                   [id |-> i, created |-> i, sim |-> (i + term) % (MaxSim + 1)]])
  IN [i \in 1..n |-> [id |-> r[i].id, similarity |-> Some(r[i].sim)]]

SearchTable == [term \in Terms |-> [n \in 0..MaxNotes |-> SearchListing(term, n)]]

\* Section 6: ListNotes(search?, limit, offset) over a store of n notes.
ListNotes(search, lim, off, n) ==
  Page(IF search = None THEN PlainListing(n) ELSE SearchTable[search[1]][n], lim, off)

\* loadNotes up to its await, with searchQuery already set to query.
StartList(reset, query) ==
  /\ BagCardinality(hReqs) < MaxAwaited
  /\ hQuery' = query
  /\ IF reset
     THEN hLoading' = TRUE /\ hOffset' = 0 /\ hNotes' = <<>> /\ UNCHANGED hLoadingMore
     ELSE hLoadingMore' = TRUE /\ UNCHANGED <<hLoading, hOffset, hNotes>>
  /\ hError' = None
  /\ hReqs' = BagAdd(hReqs, [reset |-> reset, search |-> query, phase |-> "sent",
                             offset |-> IF reset THEN 0 ELSE hOffset, n |-> 0])
  /\ UNCHANGED hTotal

\* The first request: Home.data and mounted(), which calls loadNotes().
FirstList == [reset |-> TRUE, search |-> None, phase |-> "sent", offset |-> 0, n |-> 0]

HomeInit ==
  /\ hRoute = <<"Home">>
  /\ hNotes = <<>> /\ hLoading = TRUE /\ hLoadingMore = FALSE /\ hError = None
  /\ hQuery = None /\ hTotal = 0 /\ hOffset = 0
  /\ hReqs = SetToBag({FirstList})
  /\ hSrv = MaxNotes - 1
  /\ hAnnounced = hSrv
  /\ hClicked = 0
  /\ hPlain = TRUE

HomeOff ==
  /\ hRoute = <<"Home">>
  /\ hNotes = <<>> /\ hLoading = FALSE /\ hLoadingMore = FALSE /\ hError = None
  /\ hQuery = None /\ hTotal = 0 /\ hOffset = 0
  /\ hReqs = EmptyBag
  /\ hSrv = 0 /\ hAnnounced = 0 /\ hClicked = 0 /\ hPlain = FALSE

OnHome == hRoute[1] = "Home"

\* The notes list is rendered: not loading, no error, some note.
ListShown == OnHome /\ ~hLoading /\ hError = None /\ hNotes # <<>>

\* Section 4.7: the server answers a list request from a snapshot of its
\* notes (for a search, after the term was embedded).
ServeList(q) ==
  /\ BagIn(q, hReqs) /\ q.phase = "sent"
  /\ hReqs' = BagAdd(BagDel(hReqs, q), [q EXCEPT !.phase = "ok", !.n = hSrv])
  /\ UNCHANGED <<hRoute, hNotes, hLoading, hLoadingMore, hError, hQuery, hTotal, hOffset,
                 hSrv, hAnnounced, hClicked, hPlain>>
  /\ HomeFrame

\* Mutation of NextOffset: the offset does not advance.
OffsetStuck(off, fetched) == off

\* loadNotes: this.currentOffset += response.notes.length
NextOffset(off, fetched) == off + fetched

\* loadNotes after its await, try branch.
ListDone(q) ==
  /\ BagIn(q, hReqs) /\ q.phase = "ok"
  /\ hReqs' = BagDel(hReqs, q)
  /\ LET response == ListNotes(q.search, limit, q.offset, q.n)
     IN /\ hNotes' = IF q.reset THEN response.notes ELSE hNotes \o response.notes
        /\ hTotal' = response.total
        /\ hOffset' = NextOffset(hOffset, Len(response.notes))
  /\ hLoading' = FALSE
  /\ hLoadingMore' = FALSE
  /\ UNCHANGED <<hRoute, hError, hQuery, hSrv, hAnnounced, hClicked, hPlain>>
  /\ HomeFrame

\* Mutation of ListErrorMessage: the failure leaves no message.
ListErrorDropped(status) == None

\* loadNotes' catch: the message shown for a failed request.
ListErrorMessage(status) ==
  IF status = 422 THEN Some("Search failed. Please try a different query.")
  ELSE IF status >= 500 THEN Some("Server error. Please try again later.")
  ELSE Some("err.message")

\* loadNotes after its await, catch branch.
ListFails(q) ==
  /\ BagIn(q, hReqs) /\ q.phase = "sent"
  /\ hReqs' = BagDel(hReqs, q)
  \* apiRequest: 0 when no answer arrives, 500 for a server error, and for a
  \* search whose term fails to embed (section 4.7) the status the API layer
  \* gives EmbeddingError.
  /\ \E st \in (IF q.search = None THEN {0, 500} ELSE {0, 422, 500}) :
       hError' = ListErrorMessage(st)
  /\ hLoading' = FALSE
  /\ hLoadingMore' = FALSE
  /\ UNCHANGED <<hRoute, hNotes, hQuery, hTotal, hOffset, hSrv, hAnnounced, hClicked, hPlain>>
  /\ HomeFrame

\* loadMore: the Load More button is rendered under the list when hasMore
\* and is disabled while isLoadingMore.
LoadMore ==
  /\ ListShown /\ Len(hNotes) < hTotal /\ ~hLoadingMore
  /\ StartList(FALSE, hQuery)
  /\ UNCHANGED <<hRoute, hSrv, hAnnounced, hClicked, hPlain>>
  /\ HomeFrame

\* handleSearch: the SearchBar emits a search event with a term or null.
HandleSearch(query) ==
  /\ OnHome
  /\ StartList(TRUE, query)
  /\ hPlain' = FALSE
  /\ UNCHANGED <<hRoute, hSrv, hAnnounced, hClicked>>
  /\ HomeFrame

\* Mutation of TagChipEmits: the chip emits whether clickable or not.
TagChipEmitsAlways(tag, clickable) == <<tag>>

\* TagChip.handleClick: the click events the chip emits when it is clicked.
TagChipEmits(tag, clickable) == IF clickable THEN <<tag>> ELSE <<>>

\* A tag chip of a note card, which NoteCard renders with :clickable="true",
\* is clicked: TagChip.handleClick emits click,
\* NoteCard.handleTagClick passes it on as tag-click, and Home.searchByTag
\* stores the tag as the search query and loads the notes.
SearchByTag(tag) ==
  /\ ListShown
  /\ \E i \in 1..Len(TagChipEmits(tag, TRUE)) :
       StartList(TRUE, Some(TagChipEmits(tag, TRUE)[i]))
  /\ hPlain' = FALSE
  /\ UNCHANGED <<hRoute, hSrv, hAnnounced, hClicked>>
  /\ HomeFrame

\* The Try Again button of the error state: loadNotes with the click event as
\* reset, which is truthy.
RetryList ==
  /\ OnHome /\ ~hLoading /\ hError # None
  /\ StartList(TRUE, hQuery)
  /\ hPlain' = FALSE
  /\ UNCHANGED <<hRoute, hSrv, hAnnounced, hClicked>>
  /\ HomeFrame

\* Section 6, CreateNote: some client's note is persisted.
ServerWrite ==
  /\ hSrv < MaxNotes
  /\ hSrv' = hSrv + 1
  /\ hPlain' = FALSE
  /\ UNCHANGED <<hRoute, hNotes, hLoading, hLoadingMore, hError, hQuery, hTotal, hOffset,
                 hReqs, hAnnounced, hClicked>>
  /\ HomeFrame

UnshiftAtEnd(notes, note) == notes \o <<note>>

\* this.notes.unshift(note)
Unshift(notes, note) == <<note>> \o notes

\* handleNoteCreated: the NoteForm emits note-created with the note a create
\* request returned, which carries no similarity.
HandleNoteCreated(id) ==
  /\ OnHome
  /\ hAnnounced < id /\ id <= hSrv
  /\ hAnnounced' = id
  /\ IF hQuery = None
     THEN /\ hNotes' = Unshift(hNotes, [id |-> id, similarity |-> Undefined])
          /\ hTotal' = hTotal + 1
          /\ UNCHANGED <<hLoading, hLoadingMore, hError, hQuery, hOffset, hReqs>>
     ELSE StartList(TRUE, hQuery)
  /\ hPlain' = FALSE
  /\ UNCHANGED <<hRoute, hSrv, hClicked>>
  /\ HomeFrame

\* NoteCard.viewNote: this.$emit('view-note', 1)
ViewNoteEmits(note) == 1

\* The View Details button of the i-th card: NoteCard.viewNote emits
\* view-note and Home.viewNote pushes the NoteDetail route with the emitted
\* value as id.  The Home page is left: what it awaits no longer shows.
ViewDetails(i) ==
  /\ ListShown
  /\ i \in 1..Len(hNotes)
  /\ hClicked' = hNotes[i].id
  /\ hRoute' = <<"NoteDetail", ViewNoteEmits(hNotes[i])>>
  /\ hNotes' = <<>> /\ hLoading' = FALSE /\ hLoadingMore' = FALSE /\ hError' = None
  /\ hQuery' = None /\ hTotal' = 0 /\ hOffset' = 0
  /\ hReqs' = EmptyBag
  /\ hPlain' = FALSE
  /\ UNCHANGED <<hSrv, hAnnounced>>
  /\ HomeFrame

\* NoteDetail.goBack: the Home route is pushed and a new Home page is mounted.
GoBack ==
  /\ ~OnHome
  /\ hRoute' = <<"Home">>
  /\ hNotes' = <<>> /\ hLoading' = TRUE /\ hLoadingMore' = FALSE /\ hError' = None
  /\ hQuery' = None /\ hTotal' = 0 /\ hOffset' = 0
  /\ hReqs' = SetToBag({FirstList})
  /\ hClicked' = 0
  /\ hPlain' = TRUE
  /\ UNCHANGED <<hSrv, hAnnounced>>
  /\ HomeFrame

\* NoteDetail.searchByTag: a tag chip of the note detail page is clicked; the
\* Home route is pushed with the tag as its search query parameter, and a new
\* Home page is mounted: data() and mounted(), which read no route query.
DetailSearchByTag(tag) ==
  /\ ~OnHome
  /\ hRoute' = <<"Home", tag>>
  /\ hNotes' = <<>> /\ hLoading' = TRUE /\ hLoadingMore' = FALSE /\ hError' = None
  /\ hQuery' = None /\ hTotal' = 0 /\ hOffset' = 0
  /\ hReqs' = SetToBag({FirstList})
  /\ hClicked' = 0
  /\ hPlain' = TRUE
  /\ UNCHANGED <<hSrv, hAnnounced>>
  /\ HomeFrame

HomeNext ==
  \/ \E q \in BagToSet(hReqs) : ServeList(q)
  \/ \E q \in BagToSet(hReqs) : ListDone(q)
  \/ \E q \in BagToSet(hReqs) : ListFails(q)
  \/ LoadMore
  \/ \E query \in {None} \cup {Some(t) : t \in Terms} : HandleSearch(query)
  \/ \E tag \in Terms : SearchByTag(tag)
  \/ RetryList
  \/ ServerWrite
  \/ \E id \in 1..MaxNotes : HandleNoteCreated(id)
  \/ \E i \in 1..(MaxNotes + 2) : ViewDetails(i)
  \/ GoBack
  \/ \E tag \in Terms : DetailSearchByTag(tag)

(***************************************************************************)
(* The way of a search text from the search field to the query parameters  *)
(* of a list request: SearchBar.performSearch, Home.handleSearch,          *)
(* Home.loadNotes and api.listNotes, with real texts as search terms.      *)
(***************************************************************************)
Digits == <<"0", "1", "2", "3", "4", "5", "6", "7", "8", "9">>

\* Number.prototype.toString, for a natural number.
RECURSIVE NumberToString(_)
NumberToString(n) ==
  IF n < 10 THEN <<Digits[n + 1]>> ELSE NumberToString(n \div 10) \o <<Digits[(n % 10) + 1]>>

\* The server reads a query parameter that is a decimal numeral.
RECURSIVE ParseInt(_)
ParseInt(s) ==
  IF s = <<>> THEN 0
  ELSE 10 * ParseInt(SubSeq(s, 1, Len(s) - 1))
         + (CHOOSE d \in 0..9 : Digits[d + 1] = s[Len(s)])

\* api.listNotes: the URLSearchParams it builds, as name and value pairs in
\* the order they are appended.
ListNotesParams(search, lim, off) ==
  (IF search # None /\ search[1] # <<>>   \* if (search)
   THEN <<<<"search", search[1]>>>> ELSE <<>>)
    \o <<<<"limit", NumberToString(lim)>>, <<"offset", NumberToString(off)>>>>

\* The values the parameters give the name key.
ParamValues(params, key) == {params[i][2] : i \in {j \in 1..Len(params) : params[j][1] = key}}

\* Home.data and mounted(), which calls loadNotes().
ListReqInit ==
  /\ lqField = <<>>
  /\ lqEmit = <<>>
  /\ lqQuery = None
  /\ lqOffset = 0
  /\ lqHasMore = FALSE
  /\ lqSent = ListNotesParams(None, limit, 0)

ListReqOff ==
  /\ lqField = <<>> /\ lqEmit = <<>> /\ lqQuery = None /\ lqOffset = 0
  /\ lqHasMore = FALSE /\ lqSent = <<>>

\* SearchBar.performSearch with `text` in the search field: it emits search
\* with the trimmed text or null; Home.handleSearch stores the payload and
\* calls loadNotes(), which resets the offset and calls api.listNotes.
PerformSearch(text) ==
  LET payload == OrNull(Trim(text)) IN
    /\ lqField' = text
    /\ lqEmit' = <<payload>>
    /\ lqQuery' = payload
    /\ lqOffset' = 0
    /\ lqHasMore' = FALSE
    /\ lqSent' = ListNotesParams(payload, limit, 0)
    /\ ListReqFrame

\* loadNotes after its await: a page of fetched notes arrives and the offset
\* advances; more is TRUE when the list is still shorter than the total.
PageArrives(fetched, more) ==
  /\ lqOffset + fetched <= MaxListed
  /\ lqOffset' = lqOffset + fetched
  /\ lqHasMore' = more
  /\ UNCHANGED <<lqField, lqEmit, lqQuery, lqSent>>
  /\ ListReqFrame

\* loadMore: loadNotes(false) calls api.listNotes with the stored query and
\* the current offset; the button is disabled until the answer.
LoadMoreRequest ==
  /\ lqHasMore
  /\ lqSent' = ListNotesParams(lqQuery, limit, lqOffset)
  /\ lqHasMore' = FALSE
  /\ UNCHANGED <<lqField, lqEmit, lqQuery, lqOffset>>
  /\ ListReqFrame

ListReqNext ==
  \/ \E text \in UNION {[1..n -> Chars] : n \in 0..MaxFieldText} :
       PerformSearch(text)
  \/ \E fetched \in {1, limit}, more \in BOOLEAN : PageArrives(fetched, more)
  \/ LoadMoreRequest

(***************************************************************************)
(* api.js: the api object, apiRequest and APIError.  One call at a time:   *)
(* the method builds its endpoint and options, apiRequest its url, fetch   *)
(* settles and apiRequest's promise settles after it.                      *)
(***************************************************************************)
BASE_URL == "http://localhost:8000/api"

\* The methods of the api object: the endpoint and the options each passes
\* to apiRequest (identifier 1, the first page of a plain listing).
ApiMethods ==
  { [name |-> "createNote", endpoint |-> "/notes/", method |-> <<"POST">>, baseURL |-> <<>>],
    [name |-> "listNotes", endpoint |-> "/notes/?limit=10&offset=0", method |-> <<>>, baseURL |-> <<>>],
    [name |-> "getNote", endpoint |-> "/notes/1", method |-> <<>>, baseURL |-> <<>>],
    [name |-> "deleteNote", endpoint |-> "/notes/1", method |-> <<"DELETE">>, baseURL |-> <<>>],
    [name |-> "updateTask", endpoint |-> "/tasks/1", method |-> <<"PATCH">>, baseURL |-> <<>>],
    [name |-> "getTask", endpoint |-> "/tasks/1", method |-> <<>>, baseURL |-> <<>>],
    [name |-> "healthCheck", endpoint |-> "/health", method |-> <<>>,
     baseURL |-> <<"http://localhost:8000">>] }

\* How fetch settles: it rejects (no connection), or it resolves with a
\* response of some status whose body is not JSON ("text"), the JSON null,
\* a JSON object without detail ("object") or one with detail ("detail").
Fetched ==
  {[kind |-> "rejects", status |-> 0, body |-> "text"]} \cup
  [kind : {"response"}, status : {200, 201, 204, 400, 404, 422, 500, 503},
   body : {"text", "null", "object", "detail"}]

\* apiRequest after fetch has settled as f: how its promise settles.
ApiRequest(f) ==
  LET NetworkError == [settles |-> "rejects", name |-> "APIError", status |-> 0,
                       value |-> "Network error: error.message"]
      \* response.ok
      ok == f.status \in 200..299
  IN IF f.kind = "rejects" THEN NetworkError
     ELSE IF ~ok
     THEN \* errorData is {} when json() rejects; reading detail of null
          \* throws a TypeError, which the catch block turns into status 0
          IF f.body = "null" THEN NetworkError
          ELSE [settles |-> "rejects", name |-> "APIError", status |-> f.status,
                value |-> IF f.body = "detail" THEN "errorData.detail"
                          ELSE "HTTP status: statusText"]
     ELSE \* return await response.json()
          IF f.body = "text" THEN NetworkError
          ELSE [settles |-> "resolves", name |-> "", status |-> f.status, value |-> f.body]

\* No call has been made.
ApiInit == aqCall = None /\ aqUrl = None /\ aqFetched = None /\ aqOutcome = None

\* A method of the api object is called, no call being under way: apiRequest
\* builds the url from BASE_URL and the endpoint and calls fetch.
ApiCall(m) ==
  /\ aqCall = None \/ aqOutcome # None
  /\ aqCall' = Some(m.name)
  /\ aqUrl' = Some(BASE_URL \o m.endpoint)
  /\ aqFetched' = None
  /\ aqOutcome' = None
  /\ ApiFrame

\* fetch settles and apiRequest's promise with it.
FetchSettles(f) ==
  /\ aqCall # None /\ aqOutcome = None
  /\ aqFetched' = Some(f)
  /\ aqOutcome' = Some(ApiRequest(f))
  /\ UNCHANGED <<aqCall, aqUrl>>
  /\ ApiFrame

ApiNext ==
  \/ \E m \in ApiMethods : ApiCall(m)
  \/ \E f \in Fetched : FetchSettles(f)

(***************************************************************************)
(* SPECIFICATIONS                                                          *)
(***************************************************************************)
InitIngest == IngestInit /\ RankOff /\ SearchOff /\ FormInit /\ DetailOff /\ HomeOff /\ ListReqOff /\ ApiInit
SpecIngest == InitIngest /\ [][IngestNext]_vars

\* One CreateNote of a body about as long as the maximum.
LongBodyNext ==
  \/ \E b \in LongBodies : CreateNoteOf(1, <<"a">>, b)
  \/ CallAttempt(1, "enrich")
  \/ CallAttempt(1, "embed")
  \/ Persist(1)

SpecLongBody == InitIngest /\ [][LongBodyNext]_vars

\* One CreateNote whose enrichment is answered in any of the shapes.
EnrichNext ==
  \/ CreateNote(1)
  \/ CallAttemptOf(1, "enrich", Responses)
  \/ CallAttempt(1, "embed")
  \/ Persist(1)

SpecEnrich == InitIngest /\ [][EnrichNext]_vars

InitRank == RankInit /\ IngestInit /\ SearchOff /\ FormInit /\ DetailOff /\ HomeOff /\ ListReqOff /\ ApiInit
SpecRank == InitRank /\ [][RankNext]_vars

InitSearch == SearchInit /\ IngestInit /\ RankOff /\ FormInit /\ DetailOff /\ HomeOff /\ ListReqOff /\ ApiInit
SpecSearch == InitSearch /\ [][SearchNext]_vars

InitForm == FormInit /\ IngestInit /\ RankOff /\ SearchOff /\ DetailOff /\ HomeOff /\ ListReqOff /\ ApiInit
SpecForm == InitForm /\ [][FormNext]_vars

InitSubmit == SubmitInit /\ IngestInit /\ RankOff /\ SearchOff /\ DetailOff /\ HomeOff /\ ListReqOff /\ ApiInit
SpecSubmit == InitSubmit /\ [][SubmitNext]_vars

InitDetail == DetailInit /\ IngestInit /\ RankOff /\ SearchOff /\ FormInit /\ HomeOff /\ ListReqOff /\ ApiInit
SpecDetail == InitDetail /\ [][DetailNext]_vars

\* The note detail page reached by mount and route updates only: the Try
\* Again button of the error state is never clicked.
NavNext ==
  \/ \E q \in BagToSet(dLoads) : ServeLoad(q)
  \/ \E q \in BagToSet(dLoads) : LoadDone(q)
  \/ \E q \in BagToSet(dLoads) : LoadFails(q)
  \/ \E to \in DetailNotes \cup {MissingNote} : RouteUpdate(to)
  \/ \E t \in TaskIdx : ToggleTask(t)
  \/ \E q \in BagToSet(dToggles) : ServeToggle(q)
  \/ \E q \in BagToSet(dToggles) : ToggleDone(q)
  \/ \E q \in BagToSet(dToggles) : ToggleFails(q)

SpecNav == InitDetail /\ [][NavNext]_vars

InitHome == HomeInit /\ IngestInit /\ RankOff /\ SearchOff /\ FormInit /\ DetailOff /\ ListReqOff /\ ApiInit
SpecHome == InitHome /\ [][HomeNext]_vars

InitListReq ==
  ListReqInit /\ IngestInit /\ RankOff /\ SearchOff /\ FormInit /\ DetailOff /\ HomeOff /\ ApiInit
SpecListReq == InitListReq /\ [][ListReqNext]_vars

InitApi ==
  ApiInit /\ IngestInit /\ RankOff /\ SearchOff /\ FormInit /\ DetailOff /\ HomeOff /\ ListReqOff
SpecApi == InitApi /\ [][ApiNext]_vars

(***************************************************************************)
(* CLAIMS                                                                  *)
(***************************************************************************)
CallsOf(r) == {ing[r].enrich, ing[r].embed}
Persisted(r) == \E n \in noteStore : n.id = r
HasTasks(r) == \E t \in taskStore : t.note = r

\* C1: an embedding call that fails transiently twice and then succeeds still
\* gives a created, persisted note once the request is done (enrichment and
\* storage permitting); one that fails transiently three times in a row ends
\* CreateNote with EmbeddingError and no note of it is persisted.
C1_EmbeddingRetryBudget ==
  \A r \in Reqs :
    LET e == ing[r].embed IN
    /\ (e.transients = MaxRetries /\ e.attempts = MaxRetries + 1 /\ e.last = "ok")
         => /\ e.status = "ok"
            /\ (ing[r].pc = "done" /\ ing[r].enrich.status = "ok"
                  /\ ing[r].failedStep # "persist")
                 => (ing[r].result = "ok" /\ Persisted(r))
    /\ (e.transients = MaxRetries + 1)
         => /\ e.status = "fail"
            /\ ing[r].pc = "done"
            /\ ing[r].result = "EmbeddingError"
            /\ ~Persisted(r)
            /\ ~HasTasks(r)

\* C1 witness: one creation succeeded after two transient embedding failures
\* and another ended with EmbeddingError after three.
C1_Witness ==
  \E r1, r2 \in Reqs :
    /\ ing[r1].embed.transients = MaxRetries /\ ing[r1].result = "ok" /\ Persisted(r1)
    /\ ing[r2].embed.transients = MaxRetries + 1 /\ ing[r2].result = "EmbeddingError"

\* C2: note creation is all-or-nothing.  A note a reader can see belongs to a
\* creation whose enrichment, embedding and persistence all succeeded and it
\* has all its tasks; a creation that ended in an error has no note and no
\* task, and the error is the one of the step that failed.
C2_AllOrNothing ==
  /\ \A id \in {n.id : n \in ListNotesAll} \cup {i \in Reqs : GetNote(i) # {}} :
       /\ ing[id].enrich.status = "ok"
       /\ ing[id].embed.status = "ok"
       /\ ing[id].result = "ok"
       /\ Cardinality({t \in taskStore : t.note = id}) = TasksPerNote
  /\ \A r \in Reqs :
       /\ ing[r].result # "ok" => (GetNote(r) = {} /\ ~HasTasks(r) /\ \A n \in ListNotesAll : n.id # r)
       /\ ing[r].result = "EnrichmentError" => ing[r].enrich.status = "fail"
       /\ ing[r].result = "EmbeddingError" => ing[r].embed.status = "fail"
       /\ ing[r].result = "StorageError"
            => (ing[r].failedStep = "persist" /\ \A c \in CallsOf(r) : c.status = "ok")
       /\ ing[r].result = "ValidationError" => \A c \in CallsOf(r) : c.attempts = 0
       /\ ing[r].enrich.status = "fail" => ing[r].result = "EnrichmentError"
       /\ ing[r].embed.status = "fail" => ing[r].result = "EmbeddingError"

\* C2 witness: a reader sees the note of one creation while another creation
\* is between its calls and a third way to end, StorageError, has happened to
\* neither: a note visible beside a creation whose enrichment has succeeded
\* and whose embedding is still running.
C2_Witness ==
  \E r1, r2 \in Reqs :
    /\ GetNote(r1) # {}
    /\ ing[r2].pc = "calls" /\ ing[r2].enrich.status = "ok" /\ ing[r2].embed.status = "run"
    /\ GetNote(r2) = {}

\* C3: a wrapped call makes at most 1 + MaxRetries attempts; a permanent
\* failure is never retried, so a call whose upstream fails permanently makes
\* exactly one attempt; and a call that failed surfaces the failure of its
\* last attempt, so an exhausted retry budget surfaces a transient failure of
\* the cause it was classified from.
C3_RetryPolicy ==
  \A r \in Reqs : \A c \in CallsOf(r) :
    /\ c.attempts <= 1 + MaxRetries
    /\ c.last \in PermanentCauses
         => (c.status = "fail" /\ c.attempts = c.transients + 1)
    /\ (c.last \in PermanentCauses /\ c.transients = 0) => c.attempts = 1
    /\ (c.status = "run" /\ c.attempts > 0)
         => (c.last \in TransientCauses /\ c.attempts <= MaxRetries)
    /\ (c.status = "fail" /\ c.last \in TransientCauses)
         => (c.attempts = 1 + MaxRetries /\ c.transients = 1 + MaxRetries)
    /\ c.status = "fail" => (c.surfaced = c.last /\ c.surfaced \in Causes)
    /\ c.status # "fail" => c.surfaced = "none"

\* C3 witness: one call gave up after 1 + MaxRetries transient failures and
\* another failed permanently at its first attempt.
C3_Witness ==
  \E r1, r2 \in Reqs : \E c1 \in CallsOf(r1), c2 \in CallsOf(r2) :
    /\ c1.status = "fail" /\ c1.attempts = 1 + MaxRetries /\ c1.surfaced \in TransientCauses
    /\ c2.status = "fail" /\ c2.attempts = 1 /\ c2.surfaced \in PermanentCauses

NoRepeat(list) == \A i, j \in 1..Len(list) : list[i].id = list[j].id => i = j

\* C4: over one store of notes the pages at offsets 0 and limit share no
\* identifier and report the same total, for a plain listing and for every
\* search.  On the Home page, while only the initial load and Load More
\* requests have happened and no note was written, every Load More request
\* awaited carries the number of notes fetched so far as its offset, and the
\* notes shown are the first of the server's listing, in its order, none
\* twice and none skipped, with the server's total once a page has arrived.
C4_PagesDisjoint ==
  LET IdsOf(list) == {list[i].id : i \in 1..Len(list)}
  IN
    /\ \A search \in {None} \cup {Some(t) : t \in Terms} :
         LET first == ListNotes(search, limit, 0, hSrv)
             second == ListNotes(search, limit, limit, hSrv)
         IN /\ IdsOf(first.notes) \cap IdsOf(second.notes) = {}
            /\ first.total = second.total
            /\ Len(first.notes) = Min(limit, hSrv)
            /\ Len(second.notes) = Min(limit, hSrv - Len(first.notes))
    /\ (OnHome /\ hPlain) =>
         /\ \A q \in BagToSet(hReqs) : ~q.reset => q.offset = Len(hNotes)
         /\ NoRepeat(hNotes)
         /\ hNotes = SubSeq(PlainListing(hSrv), 1, Len(hNotes))
         /\ hNotes # <<>> => hTotal = hSrv

\* C4 witness: the initial load and two Load More requests have fetched three
\* pages, which hold every note of the server.
C4_Witness ==
  /\ OnHome /\ hPlain /\ hReqs = EmptyBag
  /\ hSrv > 2 * limit
  /\ Len(hNotes) = hSrv

\* C6: after a click on the View Details button of a note's card the route
\* is NoteDetail with that note's identifier as its id parameter.
C6_ViewDetailsOpensNote ==
  ~OnHome => (hRoute[1] = "NoteDetail" /\ hRoute[2] = hClicked)

\* C10: when a list request with a search term fails, as it does when the
\* term fails to embed, the Home page is in its error state afterwards (an
\* error message, not loading) and the failure adds nothing to the notes or
\* the total shown; and the answer to a request with a search term is never
\* a plain listing: every note of it carries a similarity.
C10_FailedSearchSurfaces ==
  [][LET ListAnswered(q) == q.phase = "ok" /\ OnHome /\ OnHome' /\ hReqs' = BagDel(hReqs, q)
         ListFailed(q) == q.phase = "sent" /\ OnHome /\ OnHome' /\ hReqs' = BagDel(hReqs, q)
     IN \A q \in BagToSet(hReqs) :
          q.search # None =>
            /\ ListFailed(q) =>
                 /\ hError' # None /\ ~hLoading'
                 /\ hNotes' = hNotes /\ hTotal' = hTotal
            /\ ListAnswered(q) =>
                 \A i \in 1..Len(hNotes') :
                   (q.reset \/ i > Len(hNotes)) =>
                      (hNotes'[i].similarity # None /\ hNotes'[i].similarity # Undefined)]_vars

\* C10 witness: a search has failed while nothing else was awaited: the page
\* shows the search's error message and an empty list.
C10_Witness ==
  /\ OnHome /\ hQuery # None /\ hReqs = EmptyBag
  /\ hError = Some("Search failed. Please try a different query.")
  /\ ~hLoading /\ hNotes = <<>>

\* What the page shows for the task of the run dSeq follows, and what the
\* server stores for it.
ShownStatus(t) == dNote[1].tasks[t].status
StoredStatus(t) == dSrv[dNote[1].id][t].status

\* C5: every toggle of the note detail page asks for the opposite of the
\* status the task shows; after two toggles of one task, each over before
\* anything else is awaited, the task shows and the server stores the status
\* it had before (open, done, open); and a task update the server answers
\* leaves the task with the status asked for, changing nothing when the task
\* has that status already.
C5_ToggleTwice ==
  /\ [](/\ \A q \in BagToSet(dToggles) :
             q.data.status \in {"open", "done"} /\ q.data.status # q.from
        /\ (dSeq # None /\ dSeq[1].n = 2) =>
             /\ ShownStatus(dSeq[1].task) = dSeq[1].orig
             /\ StoredStatus(dSeq[1].task) = dSeq[1].orig)
  /\ [][LET Served(q) ==
              /\ q.phase = "sent"
              /\ dToggles' = BagAdd(BagDel(dToggles, q), [q EXCEPT !.phase = "ok"])
        IN \A q \in BagToSet(dToggles) :
             Served(q) =>
               /\ dSrv'[q.note][q.task].status = q.data.status
               /\ \A n \in DetailNotes, t \in TaskIdx :
                    (n # q.note \/ t # q.task) => dSrv'[n][t] = dSrv[n][t]
               /\ dSrv[q.note][q.task].status = q.data.status => dSrv' = dSrv]_vars

\* C5 witness: a task shown open was toggled to done and back to open, one
\* toggle after the other, both updates answered by the server.
C5_Witness ==
  /\ dSeq # None /\ dSeq[1].n = 2 /\ dSeq[1].orig = "open"
  /\ dToggles = EmptyBag
  /\ ShownStatus(dSeq[1].task) = "open"

\* C9: every semantic search result is in non-increasing similarity order;
\* equal similarities are ordered newest first and equal creation times by
\* identifier; so every ranking of the same candidates, whatever the order
\* they were fetched in, is the same sequence.
C9_RankOrder ==
  LET SeqSet(s) == {s[i] : i \in 1..Len(s)}
  IN
    /\ \A k \in 1..Len(rkRanked) :
         LET out == rkRanked[k] IN
         /\ Len(out) = Len(rkCands)
         /\ SeqSet(out) = SeqSet(rkCands)
         /\ \A i \in 1..(Len(out) - 1) :
              /\ out[i].sim >= out[i + 1].sim
              /\ out[i].sim = out[i + 1].sim => out[i].created >= out[i + 1].created
              /\ (out[i].sim = out[i + 1].sim /\ out[i].created = out[i + 1].created)
                   => out[i].id < out[i + 1].id
    /\ \A k, l \in 1..Len(rkRanked) : rkRanked[k] = rkRanked[l]

\* C9 witness: two rankings of the same candidates fetched in different
\* orders, with a tie in similarity decided by creation time and a tie in
\* both decided by identifier.
C9_Witness ==
  /\ Len(rkRanked) = 2
  /\ rkOrders = 2
  /\ LET out == rkRanked[2] IN
       /\ \E i \in 1..(Len(out) - 1) :
            out[i].sim = out[i + 1].sim /\ out[i].created > out[i + 1].created
       /\ \E i \in 1..(Len(out) - 1) :
            out[i].sim = out[i + 1].sim /\ out[i].created = out[i + 1].created

\* The form never calls api.createNote: the body stays empty, so the form is
\* never valid, and none of the steps that follow a call is enabled.
FormNeverCalls ==
  /\ nfCalls = 0 /\ nfRequest = None /\ nfForm.body = <<>> /\ ~IsValid
  /\ nfLast = None /\ nfError = None /\ ~nfSubmitting

\* C7: from the empty form the user can fill in the title and the content,
\* and with both non-empty after trimming the Create Note button is enabled
\* and submitting calls api.createNote.  Stated on every state of the form at
\* rest: each field either holds a text or accepts one, and a valid form has
\* its button enabled and its submission calls api.createNote.
C7_FormCanBeFilledAndSubmitted ==
  ~nfSubmitting =>
    /\ \A f \in Fields : Trim(nfForm[f]) # <<>> \/ ENABLED FormInput(f, <<"a">>)
    /\ IsValid => (~SubmitDisabled /\ ENABLED (HandleSubmit /\ nfCalls' = nfCalls + 1))

\* C8: a search event is emitted only when DebounceMs have passed since the
\* most recent input event; the inputs of a burst yield one search event and
\* no more: while it has not been emitted exactly one timer, the one
\* searchTimeout names, is pending for it, and once it has been none is; the
\* event carries the trimmed text of the field, null when that is empty.
C8_Debounce ==
  /\ Len(sbEmits) <= 1
  /\ \A k \in 1..Len(sbEmits) :
       /\ sbEmits[k].after >= DebounceMs
       /\ sbEmits[k].payload = (IF Trim(sbQuery) = <<>> THEN None ELSE Some(Trim(sbQuery)))
  /\ Cardinality(sbTimers) <= 1
  /\ (sbMounted /\ sbTimeout # 0)
       => (Len(sbEmits) = 0 <=> \E t \in sbTimers : t.id = sbTimeout)
  /\ \A t \in sbTimers : t.left + sbSinceInput >= DebounceMs

\* C8 witness: after a burst of two inputs less than DebounceMs apart, the one
\* search event has been emitted, with a text that trimming changed.
C8_Witness ==
  /\ Len(sbEmits) = 1
  /\ sbQuery # Trim(sbQuery)
  /\ sbEmits[1].payload # None
  /\ sbTimers = {}

\* C11: while no search term is active and nothing is awaited, no note shown
\* carries a similarity; and a note card shows the match badge only for a
\* note whose similarity is a number.
C11_PlainListingNoSimilarity ==
  ListShown =>
    /\ (hQuery = None /\ hReqs = EmptyBag) =>
         \A i \in 1..Len(hNotes) : hNotes[i].similarity = None
    /\ \A i \in 1..Len(hNotes) :
         hNotes[i].similarity # None => hNotes[i].similarity # Undefined

\* C12: a click on a tag chip of a note card sets the search query of Home to
\* the chip's tag and sends one list request, from offset 0 and with that tag
\* as its search parameter; a chip that is not clickable emits no click event,
\* and a clickable one emits its tag.
C12_TagClickSearches ==
  /\ [](\A tag \in Terms :
          TagChipEmits(tag, FALSE) = <<>> /\ TagChipEmits(tag, TRUE) = <<tag>>)
  /\ [][LET ResetRequest(query) ==
              [reset |-> TRUE, search |-> query, phase |-> "sent", offset |-> 0, n |-> 0]
        IN \A tag \in Terms :
             SearchByTag(tag) =>
               /\ hQuery' = Some(tag)
               /\ hReqs' = BagAdd(hReqs, ResetRequest(Some(tag)))
               /\ hOffset' = 0]_vars

\* C12 witness: the list was shown without a search term, a tag chip was
\* clicked, and the request for that tag is awaited.
C12_Witness ==
  LET ResetRequest(query) ==
        [reset |-> TRUE, search |-> query, phase |-> "sent", offset |-> 0, n |-> 0]
  IN
    /\ OnHome /\ ~hPlain /\ hLoading
    /\ \E tag \in Terms :
         hQuery = Some(tag) /\ hReqs = SetToBag({ResetRequest(Some(tag))})
    /\ hAnnounced = hSrv /\ hSrv = MaxNotes - 1

\* C13: when the Home page has been reached by a click on a tag chip of the
\* note detail page and nothing but its own loading has happened since, its
\* search query is the tag and every list request it awaits carries the tag
\* as its search parameter.
C13_DetailTagSearchesHome ==
  (OnHome /\ Len(hRoute) = 2 /\ hPlain) =>
    /\ hQuery = Some(hRoute[2])
    /\ \A q \in BagToSet(hReqs) : q.search = Some(hRoute[2])

\* C14: the tasks of a note stay the ones it was created with, each with the
\* text it was created with and a status that is open or done, whatever the
\* server and the note detail page do; a toggle of the page sends a body that
\* holds a status field alone, open or done, and when it is over the note the
\* page holds differs from before in the status of that task at most.
C14_OnlyStatusChanges ==
  /\ [](/\ \A n \in DetailNotes :
             /\ DOMAIN dSrv[n] = TaskIdx
             /\ \A t \in TaskIdx :
                  /\ dSrv[n][t].text = <<n, t>>
                  /\ dSrv[n][t].status \in {"open", "done"}
        /\ \A q \in BagToSet(dToggles) :
             DOMAIN q.data = {"status"} /\ q.data.status \in {"open", "done"})
  /\ [][\A q \in BagToSet(dToggles) :
          (dToggles' = BagDel(dToggles, q) /\ dNote # None) =>
            /\ dNote' # None /\ dNote'[1].id = dNote[1].id
            /\ DOMAIN dNote'[1].tasks = DOMAIN dNote[1].tasks
            /\ \A t \in DOMAIN dNote[1].tasks :
                 /\ dNote'[1].tasks[t].text = dNote[1].tasks[t].text
                 /\ t # q.task => dNote'[1].tasks[t] = dNote[1].tasks[t]]_vars

\* C14 witness: of two tasks shown, one was toggled to done and the other is
\* open as before, on the page and on the server.
C14_Witness ==
  /\ TasksShown /\ dToggles = EmptyBag
  /\ \E t, u \in TaskIdx :
       /\ ShownStatus(t) = "done" /\ StoredStatus(t) = "done"
       /\ ShownStatus(u) = "open" /\ StoredStatus(u) = "open"

\* A text that is empty once its whitespace is trimmed.
Blank(s) == \A i \in 1..Len(s) : s[i] = " "

\* The text `core` is the text s without its leading and trailing whitespace.
TrimmedOf(s, core) ==
  /\ core # <<>> /\ core[1] # " " /\ core[Len(core)] # " "
  /\ \E i \in 0..Len(s) :
       /\ i + Len(core) <= Len(s)
       /\ SubSeq(s, i + 1, i + Len(core)) = core
       /\ Blank(SubSeq(s, 1, i))
       /\ Blank(SubSeq(s, i + Len(core) + 1, Len(s)))

\* C15: the form issues no create request while its title or its body is
\* empty after trimming, and the title and the body of every request it
\* issues are the form's texts without leading and trailing whitespace, so
\* neither is empty and neither starts or ends with whitespace.
C15_SubmitTrimsAndRejectsEmpty ==
  /\ [](nfRequest # None =>
          \A f \in Fields :
            LET text == nfRequest[1][f] IN
              text # <<>> /\ text[1] # " " /\ text[Len(text)] # " ")
  /\ [][/\ (Blank(nfForm.title) \/ Blank(nfForm.body)) =>
             (nfRequest' \in {None, nfRequest} /\ nfCalls' = nfCalls)
        /\ (nfRequest = None /\ nfRequest' # None) =>
             \A f \in Fields : TrimmedOf(nfForm[f], nfRequest'[1][f])]_vars

\* C15 witness: a request is awaited whose title lost leading and whose body
\* lost trailing whitespace.
C15_Witness ==
  /\ nfRequest # None /\ nfSubmitting /\ nfCalls = 1
  /\ nfForm.title[1] = " " /\ nfForm.body[Len(nfForm.body)] = " "
  /\ nfRequest[1].title # nfForm.title /\ nfRequest[1].body # nfForm.body

\* C16: a change of the checkbox of a task issues, in that step, one task
\* update request, for that task; when the handler sees the request succeed,
\* the status of the task it holds (the displayed task, the note not having
\* been loaded again meanwhile) is the status it asked for; when it sees the
\* request fail, the page's note is as it was.
C16_ToggleIssuesOneRequest ==
  [][LET ToggleRequestOf(q, t) ==
           /\ q.note = dNote[1].id /\ q.task = t /\ q.phase = "sent"
           /\ q.data.status = Opposite(dNote[1].tasks[t].status)
     IN /\ \A t \in TaskIdx :
             ToggleTask(t) =>
               /\ BagCardinality(dToggles') = BagCardinality(dToggles) + 1
               /\ \E q \in BagToSet(dToggles') :
                    ToggleRequestOf(q, t) /\ dToggles' = BagAdd(dToggles, q)
               /\ dNote' = dNote
        /\ \A q \in BagToSet(dToggles) :
             /\ (ToggleDone(q) /\ q.live) =>
                  dNote'[1].tasks[q.task].status = q.data.status
             /\ ToggleFails(q) => dNote' = dNote]_vars

\* C16 witness: nothing is awaited; a toggle of one task succeeded and the
\* page shows the status the server has, a toggle of another failed after
\* the server had set the status and the page shows the task open as before.
C16_Witness ==
  /\ TasksShown /\ dToggles = EmptyBag /\ dLoads = EmptyBag
  /\ \E t, u \in TaskIdx :
       /\ ShownStatus(t) = "done" /\ StoredStatus(t) = "done"
       /\ ShownStatus(u) = "open" /\ StoredStatus(u) = "done"

\* C17: every list request carries one limit and one offset, and it is a
\* semantic search exactly when Home holds a non-empty search term, which is
\* then its search parameter; a search field that is empty or whitespace
\* only is emitted as null and leaves Home without a term, so the requests
\* that follow have no search parameter, and a field with other text is
\* emitted as that text trimmed, which the requests that follow carry.
C17_SearchParameter ==
  LET IsSemanticSearch(params) == \E v \in ParamValues(params, "search") : v # <<>>
  IN
    /\ ParamValues(lqSent, "limit") = {NumberToString(limit)}
    /\ \E off \in 0..MaxListed : ParamValues(lqSent, "offset") = {NumberToString(off)}
    /\ \A v \in ParamValues(lqSent, "limit") \cup ParamValues(lqSent, "offset") :
         NumberToString(ParseInt(v)) = v
    /\ Len(lqSent) = 2 + Cardinality(ParamValues(lqSent, "search"))
    /\ IsSemanticSearch(lqSent) <=> (lqQuery # None /\ ~Blank(lqQuery[1]))
    /\ ParamValues(lqSent, "search") = {lqQuery[i] : i \in 1..Len(lqQuery)}
    /\ lqEmit # <<>> =>
         /\ lqQuery = lqEmit[1]
         /\ Blank(lqField) => (lqEmit[1] = None /\ ParamValues(lqSent, "search") = {})
         /\ ~Blank(lqField) =>
              /\ lqEmit[1] # None /\ TrimmedOf(lqField, lqEmit[1][1])
              /\ ParamValues(lqSent, "search") = {lqEmit[1][1]}

\* C17 witness: the field held a text with whitespace around it, and the
\* latest request is a Load More of the search for the trimmed text.
C17_Witness ==
  /\ lqEmit # <<>> /\ lqEmit[1] # None
  /\ lqField # lqEmit[1][1]
  /\ lqSent = <<<<"search", lqEmit[1][1]>>, <<"limit", <<"1", "0">>>>,
                <<"offset", <<"1", "1">>>>>>

\* C18: every created note has between 3 and 6 tags and exactly 3 tasks, all
\* open; a creation whose enrichment answer missed a field, had a number of
\* tags outside 3..6 or a number of tasks other than 3 ended with
\* EnrichmentError and has no note and no task.
C18_TagAndTaskCounts ==
  LET StoredTasks(r) == {t \in taskStore : t.note = r}
  IN
    LET ViolatesContract(resp) ==
          \/ \E f \in {"summary", "tags", "tasks"} : f \notin DOMAIN resp
          \/ Len(resp.tags) < 3 \/ Len(resp.tags) > 6
          \/ Len(resp.tasks) # 3
    IN
      /\ \A n \in noteStore :
           /\ Len(n.tags) >= 3 /\ Len(n.tags) <= 6
           /\ Cardinality(StoredTasks(n.id)) = 3
           /\ Cardinality({t.idx : t \in StoredTasks(n.id)}) = 3
           /\ \A t \in StoredTasks(n.id) : t.status = "open"
      /\ \A t \in taskStore : Persisted(t.note)
      /\ \A r \in Reqs :
           (ing[r].response # None /\ ViolatesContract(ing[r].response[1])) =>
             /\ ing[r].pc = "done" /\ ing[r].result = "EnrichmentError"
             /\ ~Persisted(r) /\ ~HasTasks(r)

\* C18 witness: a note was created from an answer with 6 tags and 3 tasks.
C18_Witness ==
  LET StoredTasks(r) == {t \in taskStore : t.note = r}
  IN
    \E n \in noteStore :
      /\ Len(n.tags) = 6 /\ Cardinality(StoredTasks(n.id)) = 3
      /\ ing[n.id].result = "ok" /\ ing[n.id].response = Some(Shaped(6, 3))

\* C19: a body longer than 8000 characters after trimming is stored as the
\* first 8000 characters of the trimmed body; a shorter one is stored as
\* trimmed; no stored body is longer than 8000 characters.
C19_BodyTruncated ==
  LET TrimmedRaw(r) == Trim(ing[r].raw)
  IN
    /\ \A r \in Reqs :
         (ing[r].pc # "idle" /\ ing[r].result # "ValidationError") =>
           /\ Len(TrimmedRaw(r)) > 8000 =>
                /\ Len(ing[r].body) = 8000
                /\ \A i \in {1, 2, 7999, 8000} : ing[r].body[i] = TrimmedRaw(r)[i]
                /\ ing[r].body = SubSeq(TrimmedRaw(r), 1, 8000)
           /\ Len(TrimmedRaw(r)) <= 8000 => ing[r].body = TrimmedRaw(r)
    /\ \A n \in noteStore : Len(n.body) <= 8000 /\ n.body = ing[n.id].body

\* C19 witness: a note is stored whose body had spaces around 8001
\* characters, the 8000th of them a space.
C19_Witness ==
  LET TrimmedRaw(r) == Trim(ing[r].raw)
  IN
    \E n \in noteStore :
      /\ Len(ing[n.id].raw) = 8003 /\ Len(TrimmedRaw(n.id)) = 8001
      /\ Len(n.body) = 8000 /\ n.body[8000] = " "

\* C20: no two entries of the list Home shows have the same identifier.
C20_NoDuplicateIds == NoRepeat(hNotes)


\* C21: once no list request is awaited (and the latest one did not fail),
\* the notes Home shows are results for the current searchQuery: scored
\* entries of the search when a term is set, unscored entries of the plain
\* listing (or notes announced by note-created) when none is.
C21_LatestQueryShown ==
  (OnHome /\ hReqs = EmptyBag /\ hError = None) =>
    \A i \in 1..Len(hNotes) :
      IF hQuery = None
      THEN hNotes[i].similarity \in {None, Undefined}
      ELSE hNotes[i].similarity \notin {None, Undefined}


\* C22: at most one Load More request (a list request that does not reset
\* the list) is awaited at any time.
C22_OneLoadMore ==
  LET more == {q \in BagToSet(hReqs) : ~q.reset}
  IN /\ Cardinality(more) <= 1
     /\ \A q \in more : CopiesIn(q, hReqs) = 1


\* C23: isLoading is set while a resetting list request is awaited,
\* isLoadingMore is set while a load-more request is awaited, and both are
\* clear once no list request is awaited.
C23_FlagsTrackRequests ==
  OnHome =>
    /\ (\E q \in BagToSet(hReqs) : q.reset) => hLoading
    /\ (\E q \in BagToSet(hReqs) : ~q.reset) => hLoadingMore
    /\ hReqs = EmptyBag => (~hLoading /\ ~hLoadingMore)


\* C24: a note-created event with no search query puts the new note first in
\* the displayed list, adds exactly 1 to totalNotes and issues no list
\* request; with a search query it reloads the list from offset 0 with that
\* query (the list is emptied and one resetting request is issued).
C24_NoteCreatedEffect ==
  [][\A id \in 1..MaxNotes :
       HandleNoteCreated(id) =>
         IF hQuery = None
         THEN /\ Len(hNotes') = Len(hNotes) + 1
              /\ hNotes'[1].id = id
              /\ \A i \in 1..Len(hNotes) : hNotes'[i + 1] = hNotes[i]
              /\ hTotal' = hTotal + 1
              /\ hReqs' = hReqs
         ELSE /\ hNotes' = <<>> /\ hOffset' = 0 /\ hQuery' = hQuery
              /\ \E q \in BagToSet(hReqs') :
                   /\ q.reset /\ q.offset = 0 /\ q.search = hQuery /\ q.phase = "sent"
                   /\ hReqs' = BagAdd(hReqs, q)]_vars

C24_Witness ==
  /\ OnHome /\ hQuery = None /\ hReqs = EmptyBag
  /\ Len(hNotes) = limit + 1
  /\ hNotes[1].id = hAnnounced /\ hNotes[1].similarity = Undefined
  /\ hTotal = hSrv


\* C25: once no task-update request is awaited, the status the detail page
\* holds for each task of the note it shows is the status the server stores
\* for that task.
C25_TogglesConverge ==
  (TasksShown /\ dToggles = EmptyBag /\ dLoads = EmptyBag) =>
    \A t \in TaskIdx : ShownStatus(t) = StoredStatus(t)


\* C28: once no note load is awaited, the detail page either shows the note
\* of the current route id or is in the error state of that id: it does not
\* say that the note could not be found when the server has the note of the
\* route.
C28_LatestNoteShown ==
  dLoads = EmptyBag =>
    IF dError = None
    THEN dNote # None /\ dNote[1].id = dId
    ELSE dId \in DetailNotes =>
           dError # Some("This note could not be found. It may have been deleted.")


\* C26: isSubmitting is set exactly while a create request is awaited;
\* handleSubmit called while isSubmitting is set changes nothing, so no second
\* request is issued; and every outcome of the request, success or failure,
\* leaves isSubmitting clear and no request awaited.
C26_OneCreateInFlight ==
  /\ [](nfSubmitting <=> nfRequest # None)
  /\ [][/\ (nfSubmitting /\ HandleSubmit) => UNCHANGED formVars
        /\ (nfRequest # None /\ nfRequest' = None) => ~nfSubmitting'
        /\ (nfRequest = None /\ nfRequest' # None) => (~nfSubmitting /\ nfSubmitting')]_vars

\* C26 witness: a second request is awaited, after the first was answered.
C26_Witness == nfSubmitting /\ nfRequest # None /\ nfCalls = 2 /\ nfError = None

\* C27: a create request that succeeds leaves lastCreatedNote = the note,
\* error null, title and body empty and one more note-created event, which
\* carries the note; one that fails leaves error set, lastCreatedNote null,
\* title and body as they were submitted and no new event; error and
\* lastCreatedNote are never both set.
C27_CreateOutcome ==
  /\ [](~(nfError # None /\ nfLast # None))
  /\ [][/\ (nfRequest # None /\ CreateSucceeds(nfRequest[1])) =>
             /\ nfLast' = nfRequest /\ nfError' = None
             /\ nfForm'.title = <<>> /\ nfForm'.body = <<>>
             /\ nfEmitted' = Append(nfEmitted, nfRequest[1])
        /\ \A status \in {0, 422, 500} :
             CreateFails(status) =>
               /\ nfError' # None /\ nfLast' = None
               /\ nfForm' = nfForm
               /\ Trim(nfForm'.title) = nfRequest[1].title
               /\ Trim(nfForm'.body) = nfRequest[1].body
               /\ nfEmitted' = nfEmitted]_vars

\* C27 witness: one request failed and the next succeeded; the form is empty,
\* the note is shown and was emitted once.
C27_Witness ==
  /\ nfRequest = None /\ nfCalls = 2 /\ nfLast # None /\ nfError = None
  /\ nfForm = [title |-> <<>>, body |-> <<>>]
  /\ nfEmitted = <<nfLast[1]>>


\* C29: a promise of apiRequest that rejects rejects with an APIError; after
\* a response whose status is not 2xx it rejects with that status; after a
\* rejected fetch, or a 2xx response whose body is not JSON, it rejects with
\* status 0; and it resolves only after a 2xx response, with the parsed body.
C29_ApiErrors ==
  aqOutcome # None =>
    LET f == aqFetched[1]
        o == aqOutcome[1]
        success == f.kind = "response" /\ f.status \in 200..299
    IN /\ o.settles = "rejects" => o.name = "APIError"
       /\ (f.kind = "response" /\ ~success) => (o.settles = "rejects" /\ o.status = f.status)
       /\ (f.kind = "rejects" \/ (success /\ f.body = "text")) =>
            (o.settles = "rejects" /\ o.status = 0)
       /\ o.settles = "resolves" => (success /\ o.value = f.body)

\* C30: api.healthCheck has fetch request http://localhost:8000/health.
C30_HealthUrl ==
  aqCall = Some("healthCheck") => aqUrl = Some("http://localhost:8000/health")

=============================================================================
